---- MODULE Spec2Model ----
(***************************************************************************)
(* A model of the excel-sheet-manager web client and of the row level      *)
(* security policies of its hosted database.                               *)
(*                                                                         *)
(* The database tables are sets (or sequences) of rows.  Every statement   *)
(* the client sends is filtered by the policy of its table and command,    *)
(* evaluated for the signed-in user (auth.uid()).  Every handler of the    *)
(* client is one action.  The variable event records the handler that ran  *)
(* last, who ran it, the toast it showed and the rows it was given.        *)
(***************************************************************************)
EXTENDS Integers, Sequences, FiniteSets, TLC

\* ------------------------------------------------------------------ bounds
MaxProjects == 3      \* project ids p1..; p1 and p2 exist initially
MaxInvitations == 2   \* invitation rows ever created
MaxLogs == 2          \* activity_logs rows ever inserted
MaxLen == 2           \* length of a typed comment
MaxRows == 2          \* rows of a sheet in the sheet viewer
MaxCols == 1          \* columns of a sheet in the sheet viewer
CsvLen == 1           \* length of a cell and of a column name of an exported table
CsvRows == 1          \* rows of an exported table
CsvCols == 2          \* columns of an exported table
MaxLine == 5          \* length of a line given to parseCSVLine

\* ------------------------------------------------------------------ values
Users == {"u1", "u2"}
Roles == {"admin", "editor", "viewer"}
DefaultRole == "member"
NULL == "NULL"
NoUser == "nobody"
ProjectNames == <<"p1", "p2", "p3", "p4", "p5">>
ProjectIds == {ProjectNames[i] : i \in 1..MaxProjects}
SheetIds == {"s1", "s2", "s3", "s4"}
Bucket == "sheet-files"

\* the texts typed into the comment box
CommentInputs == UNION {[1..n -> {"a", " "}] : n \in 0..MaxLen}

\* String.prototype.trim
WhiteSpace == {" ", "\t", "\n"}
RECURSIVE TrimLeft(_)
TrimLeft(s) == IF s # <<>> /\ Head(s) \in WhiteSpace THEN TrimLeft(Tail(s)) ELSE s
RECURSIVE TrimRight(_)
TrimRight(s) ==
  IF s # <<>> /\ s[Len(s)] \in WhiteSpace THEN TrimRight(SubSeq(s, 1, Len(s) - 1)) ELSE s
Trim(s) == TrimRight(TrimLeft(s))

\* String.prototype.toLowerCase
LowerChar(c) == IF c = "A" THEN "a" ELSE IF c = "Y" THEN "y" ELSE c
ToLowerCase(s) == [i \in 1..Len(s) |-> LowerChar(s[i])]

\* String.prototype.includes
Includes(s, q) == \E i \in 0..(Len(s) - Len(q)) : SubSeq(s, i + 1, i + Len(q)) = q

EmailOf(u) == IF u = "u1" THEN <<"a">> ELSE <<"c", "c">>

VARIABLES
  projects,             \* table projects: rows [id, created_by]
  project_members,      \* table project_members: rows [project_id, user_id, role]
  project_invitations,  \* table project_invitations: rows [id, project_id, email, role]
  sheets,               \* table sheets: sheet id -> [project_id, data, columns, file_url]
  comments,             \* table comments: rows [sheet_id, project_id, user_id, comment_text]
  activity_logs,        \* table activity_logs: sequence of rows, in insertion order
  user_profiles,        \* table user_profiles: user -> [is_admin, can_download]
  dash,                 \* per user: the state of the project workspace (Dashboard)
  dlg,                  \* per user: the state of the members dialog
  viewer,               \* per user: the state of the sheet viewer
  auth,                 \* per browser tab: the state of its AuthProvider
  csv,                  \* a table, the CSV text exported from it, the table imported
  event                 \* the handler that ran last

dbvars == <<projects, project_members, project_invitations, sheets, comments,
            activity_logs, user_profiles>>
vars == <<projects, project_members, project_invitations, sheets, comments,
          activity_logs, user_profiles, dash, dlg, viewer, auth, csv, event>>

Ev(op, u, p, result, rows) ==
  [op |-> op, user |-> u, project |-> p, result |-> result, rows |-> rows]

\* ---------------------------------------------------------------- policies
is_project_member(project_id, user_id) ==
  \E m \in project_members : m.project_id = project_id /\ m.user_id = user_id

is_project_admin(project_id, user_id) ==
  \E m \in project_members :
    m.project_id = project_id /\ m.user_id = user_id /\ m.role = "admin"

RoleOf(project_id, user_id) ==
  IF is_project_member(project_id, user_id)
  THEN (CHOOSE m \in project_members :
          m.project_id = project_id /\ m.user_id = user_id).role
  ELSE NULL

\* "Users can view project members for their projects" (SELECT)
MembersSelectPolicy(uid, row) == is_project_member(row.project_id, uid)
\* "Project admins can manage members" (ALL; USING doubles as WITH CHECK)
\* (a weaker policy, admitting every member: C2 must tell the two apart)
MembersManagePolicyAny(uid, row) == is_project_member(row.project_id, uid)
MembersManagePolicy(uid, row) == is_project_admin(row.project_id, uid)
\* "Project admins can manage invitations" (ALL)
InvitationsManagePolicy(uid, row) == is_project_admin(row.project_id, uid)
\* "Users can view projects they are members of" (SELECT)
ProjectsSelectPolicy(uid, row) == is_project_member(row.id, uid)
\* "Users can create projects" (INSERT TO authenticated)
ProjectsInsertPolicy(uid, row) == uid = row.created_by
\* projects has no DELETE policy: row level security denies the command
ProjectsDeletePolicy(uid, row) == FALSE
\* "Users can view sheets in their projects" (SELECT)
SheetsSelectPolicy(uid, row) == is_project_member(row.project_id, uid)
\* "Project members can create sheets" (INSERT)
SheetsInsertPolicy(uid, row) == is_project_member(row.project_id, uid)
\* "Project editors can update sheets" (UPDATE)
\* (a weaker policy, admitting every member: C3 must tell the two apart)
SheetsUpdatePolicyAny(uid, row) == is_project_member(row.project_id, uid)
SheetsUpdatePolicy(uid, row) ==
  \/ is_project_admin(row.project_id, uid)
  \/ \E m \in project_members :
       m.project_id = row.project_id /\ m.user_id = uid /\ m.role = "editor"
\* "Users can view comments in their projects" (SELECT)
CommentsSelectPolicy(uid, row) == is_project_member(row.project_id, uid)
\* "Project members can create comments" (INSERT)
CommentsInsertPolicy(uid, row) == is_project_member(row.project_id, uid)
\* "Project admins can view activity logs" (SELECT)
LogsSelectPolicy(uid, row) == is_project_admin(row.project_id, uid)
\* "Project members can create activity logs" (INSERT)
LogsInsertPolicy(uid, row) == is_project_member(row.project_id, uid)
\* activity_logs has SELECT and INSERT policies only
\* (a DELETE policy for project admins: C6 must tell the two apart)
LogsDeletePolicyAdmin(uid, row) == is_project_admin(row.project_id, uid)
LogsDeletePolicy(uid, row) == FALSE
LogsUpdatePolicy(uid, row) == FALSE
\* storage.objects "Anyone can view files" (SELECT), the bucket is public
StorageSelectPolicy(uid, bucket_id) == bucket_id = Bucket

\* ------------------------------------------------------- client side state
canEdit(u) == dash[u].userRole = "admin" \/ dash[u].userRole = "editor"
canManage(u) == dash[u].userRole = "admin"
canManageMembers(u) == dash[u].userRole = "admin"
\* the download guard shared by Dashboard, SheetCard and SheetViewer
MayDownload(u) == user_profiles[u].can_download \/ user_profiles[u].is_admin

DashClosed ==
  [projectId |-> NULL, project |-> NULL, userRole |-> "", sheets |-> <<>>,
   selectedSheet |-> NULL, selectedFile |-> NULL]
DlgClosed == [open |-> FALSE, members |-> {}, invitations |-> {}]

isSpreadsheet(s) == sheets[s].file_type = "text/csv"
isImageOrPDF(s) == sheets[s].file_type \in {"application/pdf", "image/png"}

\* SheetViewer: the state its useState calls set up from the sheet prop.
\* data starts as the array sheet.data itself, so its rows are the row
\* objects of the sheet in the dashboard's list: shared[i] is the place of
\* data[i] in that sheet's data, or 0 for a row object of the viewer's own.
NoCell == [row |-> 0, col |-> <<>>]
ViewerClosed ==
  [file_type |-> "", data |-> <<>>, columns |-> <<>>, searchQuery |-> <<>>, editingCell |-> NoCell,
   editValue |-> <<>>, shared |-> <<>>]
ViewerOpened(sheet) ==
  [file_type |-> sheet.file_type, data |-> sheet.data, columns |-> sheet.columns, searchQuery |-> <<>>,
   editingCell |-> NoCell, editValue |-> <<>>,
   shared |-> [i \in 1..Len(sheet.data) |-> i]]
\* the list is replaced by fetched objects: no row of the viewer is in it
Unshared(v) == [v EXCEPT !.shared = [i \in 1..Len(v.data) |-> 0]]

\* the workspace shows its cards: project loaded, no sheet viewer on top
ShowsCards(u) == dash[u].project # NULL /\ dash[u].selectedSheet = NULL

\* ------------------------------------------------ activity_logs statements
\* insert into activity_logs; the client never looks at the error
LogRow(u, action_type, project_id) ==
  [user_id |-> u, action_type |-> action_type, project_id |-> project_id]
InsertLog(u, row) ==
  /\ LogsInsertPolicy(u, row) => Len(activity_logs) < MaxLogs
  /\ activity_logs' = IF LogsInsertPolicy(u, row)
                      THEN Append(activity_logs, row)
                      ELSE activity_logs

\* ------------------------------------------------------------- Dashboard
\* route /project/p is opened: Dashboard.fetchProject
FetchProjectRows(u, p) ==
  {m \in project_members :
     MembersSelectPolicy(u, m) /\ m.project_id = p /\ m.user_id = u}
EmbeddedProject(u, p) ==
  IF \E r \in projects : r.id = p /\ ProjectsSelectPolicy(u, r) THEN p ELSE NULL

OpenProject(u, p) ==
  LET rows == FetchProjectRows(u, p) IN
  /\ IF Cardinality(rows) # 1
     THEN \* .single() fails: toast 'Access Denied', navigate('/')
          /\ dash' = [dash EXCEPT ![u] = DashClosed]
          /\ event' = Ev("fetchProject", u, p, "Access Denied", {})
     ELSE LET m == CHOOSE r \in rows : TRUE IN
          /\ dash' = [dash EXCEPT ![u] =
                        [DashClosed EXCEPT !.projectId = p,
                                           !.project = EmbeddedProject(u, p),
                                           !.userRole = m.role]]
          /\ event' = Ev("fetchProject", u, p, "shown",
                         {EmbeddedProject(u, p)} \ {NULL})
  /\ dlg' = [dlg EXCEPT ![u] = DlgClosed]
  /\ viewer' = [viewer EXCEPT ![u] = ViewerClosed]
  /\ UNCHANGED <<dbvars, auth, csv>>

\* Dashboard.fetchSheets, started by the same effect as fetchProject
FetchSheetsRows(u, p) ==
  {s \in DOMAIN sheets : SheetsSelectPolicy(u, sheets[s]) /\ sheets[s].project_id = p}

FetchSheets(u, p) ==
  LET rows == FetchSheetsRows(u, p) IN
  /\ dash' = IF dash[u].projectId = p
             THEN [dash EXCEPT ![u].sheets = [x \in rows |-> sheets[x]]]
             ELSE dash
  /\ viewer' = IF dash[u].projectId = p
               THEN [viewer EXCEPT ![u] = Unshared(@)]
               ELSE viewer
  /\ event' = Ev("fetchSheets", u, p, "loaded", rows)
  /\ UNCHANGED <<dbvars, auth, csv, dlg>>

\* Dashboard.handleViewSheet, from a card of the workspace
handleViewSheet(u, s) ==
  /\ ShowsCards(u)
  /\ s \in DOMAIN dash[u].sheets
  /\ InsertLog(u, LogRow(u, "view", NULL))
  /\ dash' = [dash EXCEPT ![u].selectedSheet = s]
  /\ viewer' = [viewer EXCEPT ![u] = ViewerOpened(dash[u].sheets[s])]
  /\ event' = Ev("handleViewSheet", u, dash[u].projectId, "viewed", {s})
  /\ UNCHANGED <<projects, project_members, project_invitations, sheets,
                 comments, user_profiles, auth, csv, dlg>>

\* SheetViewer onClose
CloseViewer(u) ==
  /\ dash[u].selectedSheet # NULL
  /\ dash' = [dash EXCEPT ![u].selectedSheet = NULL]
  /\ viewer' = [viewer EXCEPT ![u] = ViewerClosed]
  /\ event' = Ev("onClose", u, dash[u].projectId, "closed", {})
  /\ UNCHANGED <<dbvars, auth, csv, dlg>>

\* Dashboard.handleDownloadSheet (the format menu of a spreadsheet card)
DownloadSheet(u, s) ==
  IF ~MayDownload(u)
  THEN /\ event' = Ev("handleDownloadSheet", u, dash[u].projectId, "Access Denied", {})
       /\ UNCHANGED activity_logs
  ELSE /\ InsertLog(u, LogRow(u, "download", NULL))
       /\ event' = Ev("handleDownloadSheet", u, dash[u].projectId,
                      "Download Started", {s})

handleDownloadSheet(u, s) ==
  /\ ShowsCards(u)
  /\ s \in DOMAIN dash[u].sheets
  /\ isSpreadsheet(s)
  /\ DownloadSheet(u, s)
  /\ UNCHANGED <<projects, project_members, project_invitations, sheets,
                 comments, user_profiles, auth, csv, dash, dlg, viewer>>

\* SheetCard.handleDirectDownload (the button of a card that is no spreadsheet)
handleDirectDownload(u, s) ==
  /\ ShowsCards(u)
  /\ s \in DOMAIN dash[u].sheets
  /\ ~isSpreadsheet(s)
  /\ IF ~MayDownload(u)
     THEN /\ event' = Ev("handleDirectDownload", u, dash[u].projectId,
                         "Access Denied", {})
          /\ UNCHANGED activity_logs
     ELSE IF isImageOrPDF(s)
          THEN /\ event' = Ev("handleDirectDownload", u, dash[u].projectId,
                              "Download Started", {s})
               /\ UNCHANGED activity_logs
          ELSE DownloadSheet(u, s)
  /\ UNCHANGED <<projects, project_members, project_invitations, sheets,
                 comments, user_profiles, auth, csv, dash, dlg, viewer>>

\* SheetViewer.handleDownload
ViewerDownload(u) ==
  /\ dash[u].selectedSheet # NULL
  /\ event' = IF ~MayDownload(u)
              THEN Ev("SheetViewer.handleDownload", u, dash[u].projectId,
                      "Access Denied", {})
              ELSE Ev("SheetViewer.handleDownload", u, dash[u].projectId,
                      "Download Started", {dash[u].selectedSheet})
  /\ UNCHANGED <<dbvars, auth, csv, dash, dlg, viewer>>

\* BulkDownloadDialog.handleDownload; the dialog opens from the Download
\* button the workspace renders under canManage, with a non-empty list
BulkDownload(u, selectedSheets) ==
  /\ ShowsCards(u)
  /\ canManage(u)
  /\ DOMAIN dash[u].sheets # {}
  /\ selectedSheets \subseteq DOMAIN dash[u].sheets
  /\ IF selectedSheets = {}
     THEN /\ event' = Ev("BulkDownload", u, dash[u].projectId, "No files selected", {})
          /\ UNCHANGED activity_logs
     ELSE /\ InsertLog(u, LogRow(u, "bulk_download", NULL))
          /\ event' = Ev("BulkDownload", u, dash[u].projectId, "Download Started",
                         selectedSheets)
  /\ UNCHANGED <<projects, project_members, project_invitations, sheets,
                 comments, user_profiles, auth, csv, dash, dlg, viewer>>

\* ----------------------------------------------------------- AuthProvider
\* the browser tabs, each with its own AuthProvider
Tabs == {"t1", "t2"}

\* The state a page load leaves: the useState values of AuthProvider, the
\* session the identity provider's client holds, the profile fetch that is
\* under way, and the authInitialized that the onAuthStateChange callback
\* closes over (the effect runs once, with the first render's value).
AuthMounted(session) ==
  [session |-> session, user |-> NULL, profile |-> NULL, loading |-> TRUE,
   authInitialized |-> FALSE, closure |-> [authInitialized |-> FALSE],
   fetching |-> NULL, initializing |-> TRUE]

\* initializeAuth up to its await: getSession, setUser
initializeAuth(t) ==
  /\ auth[t].initializing
  /\ auth[t].fetching = NULL
  /\ ~auth[t].authInitialized
  /\ auth' = [auth EXCEPT ![t] =
               IF auth[t].session # NULL
               THEN [@ EXCEPT !.user = auth[t].session,
                              !.fetching = auth[t].session]
               ELSE [@ EXCEPT !.user = NULL, !.profile = NULL, !.loading = FALSE,
                              !.authInitialized = TRUE, !.initializing = FALSE]]
  /\ event' = Ev("initializeAuth", NoUser, t, "session", {auth[t].session})
  /\ UNCHANGED <<dbvars, csv, dash, dlg, viewer>>

\* fetchUserProfile returns: setProfile, setLoading(false); when
\* initializeAuth awaited it, its finally block runs
fetchUserProfile(t) ==
  /\ auth[t].fetching # NULL
  /\ auth' = [auth EXCEPT ![t] =
               [@ EXCEPT !.profile = auth[t].fetching, !.loading = FALSE,
                         !.fetching = NULL,
                         !.authInitialized = @ \/ auth[t].initializing,
                         !.initializing = FALSE]]
  /\ event' = Ev("fetchUserProfile", NoUser, t, "loaded", {auth[t].fetching})
  /\ UNCHANGED <<dbvars, csv, dash, dlg, viewer>>

\* the guard of the onAuthStateChange callback: !mounted || !authInitialized
AuthCallbackReturns(a) == ~a.closure.authInitialized

\* what the identity provider's client hands to the callback: the event and
\* its session (a sign-in or sign-out in another tab, a refreshed token)
AuthChanges ==
  {[event |-> "SIGNED_IN", session |-> u] : u \in Users} \cup
  {[event |-> "TOKEN_REFRESHED", session |-> u] : u \in Users} \cup
  {[event |-> "SIGNED_OUT", session |-> NULL]}

onAuthStateChange(t, change) ==
  LET session == change.session IN
  /\ change.event = "TOKEN_REFRESHED" => auth[t].session = session
  /\ IF AuthCallbackReturns(auth[t])
     THEN /\ auth' = [auth EXCEPT ![t].session = session]
          /\ event' = Ev("onAuthStateChange", NoUser, t, "returned", {change})
     ELSE /\ auth' = [auth EXCEPT ![t] =
                       IF session # NULL
                       THEN \* setUser; the timer starts fetchUserProfile
                            [@ EXCEPT !.session = session, !.user = session,
                                      !.fetching = session]
                       ELSE [@ EXCEPT !.session = session, !.user = NULL,
                                      !.profile = NULL, !.loading = FALSE]]
          /\ event' = Ev("onAuthStateChange", NoUser, t, "applied", {change})
  /\ UNCHANGED <<dbvars, csv, dash, dlg, viewer>>

\* signInWithGoogle: the OAuth redirect comes back to a fresh page load
signInWithGoogle(t, u) ==
  /\ auth[t].user = NULL
  /\ ~auth[t].loading
  /\ auth' = [auth EXCEPT ![t] = AuthMounted(u)]
  /\ event' = Ev("signInWithGoogle", u, t, "redirect", {})
  /\ UNCHANGED <<dbvars, csv, dash, dlg, viewer>>

\* signOut: the state is cleared, the session ends, the page is loaded anew
signOut(t) ==
  /\ auth[t].user # NULL
  /\ auth' = [auth EXCEPT ![t] = AuthMounted(NULL)]
  /\ event' = Ev("signOut", auth[t].user, t, "redirect", {})
  /\ UNCHANGED <<dbvars, csv, dash, dlg, viewer>>

\* ----------------------------------------------------------- ActivityLogs
\* the condition under which ActivityLogs fetches and renders the records
\* (the workspace role, which does not decide it)
LogsViewGuardRole(u) == canManage(u)
LogsViewGuard(u) == user_profiles[u].is_admin

\* fetchLogs: select * from activity_logs; the records are named by their
\* position in the table
FetchLogsRows(u) ==
  {i \in 1..Len(activity_logs) : LogsSelectPolicy(u, activity_logs[i])}

\* the Activity button of the workspace, rendered under canManage, mounts
\* ActivityLogs
ShowActivityLogs(u) ==
  /\ ShowsCards(u)
  /\ canManage(u)
  /\ event' = IF LogsViewGuard(u)
              THEN Ev("ActivityLogs", u, dash[u].projectId, "shown", FetchLogsRows(u))
              ELSE Ev("ActivityLogs", u, dash[u].projectId, "Access Denied", {})
  /\ UNCHANGED <<dbvars, auth, csv, dash, dlg, viewer>>

\* ------------------------------------------------------------ SheetViewer
\* the guard of the editing handlers and of the editing controls
EditGuard(u) == user_profiles[u].is_admin

\* the table and its controls are rendered for a spreadsheet
Viewing(u) == dash[u].selectedSheet # NULL /\ viewer[u].file_type = "text/csv"
ViewerEvent(u, op, result) ==
  event' = Ev(op, u, dash[u].projectId, result, {dash[u].selectedSheet})
ViewerVars(u, op, result) ==
  /\ ViewerEvent(u, op, result)
  /\ UNCHANGED <<dbvars, auth, csv, dash, dlg>>

\* the effect that keeps filteredData: the rows with a value holding the query
RowMatches(row, q) ==
  \E c \in DOMAIN row : Includes(ToLowerCase(row[c]), ToLowerCase(q))
filteredData(v) ==
  IF v.searchQuery = <<>> THEN v.data
  ELSE LET Keep(row) == RowMatches(row, v.searchQuery) IN SelectSeq(v.data, Keep)

SearchInputs == {<<>>, <<"Y">>}
onSearchChange(u, q) ==
  /\ Viewing(u)
  /\ viewer' = [viewer EXCEPT ![u].searchQuery = q]
  /\ ViewerVars(u, "setSearchQuery", "filtered")

\* a cell of the displayed table is clicked
handleCellEdit(u, rowIndex, column) ==
  /\ Viewing(u)
  /\ rowIndex \in 1..Len(filteredData(viewer[u]))
  /\ column \in {viewer[u].columns[i] : i \in 1..Len(viewer[u].columns)}
  /\ IF ~EditGuard(u)
     THEN /\ UNCHANGED viewer
          /\ ViewerVars(u, "handleCellEdit", "ignored")
     ELSE /\ viewer' = [viewer EXCEPT
                          ![u].editingCell = [row |-> rowIndex, col |-> column],
                          ![u].editValue = filteredData(viewer[u])[rowIndex][column]]
          /\ ViewerVars(u, "handleCellEdit", "editing")

\* the input and the two buttons are rendered in the cell of filteredData
\* whose index and column equal editingCell
EditorShown(u) ==
  /\ viewer[u].editingCell # NoCell
  /\ viewer[u].editingCell.row \in 1..Len(filteredData(viewer[u]))
  /\ \E i \in 1..Len(viewer[u].columns) : viewer[u].columns[i] = viewer[u].editingCell.col

Cells == {<<>>, <<"x">>, <<"y">>}
onEditValueChange(u, value) ==
  /\ Viewing(u)
  /\ EditorShown(u)
  /\ viewer' = [viewer EXCEPT ![u].editValue = value]
  /\ ViewerVars(u, "setEditValue", "typed")

\* newData = [...data]; newData[editingCell.row][editingCell.col] = editValue:
\* the array is copied, the row object is not, so the assignment is also
\* seen through the sheet of the dashboard's list when the row is shared
SetCell(row, col, value) ==
  [c \in DOMAIN row \cup {col} |-> IF c = col THEN value ELSE row[c]]
handleSaveCell(u) ==
  LET v == viewer[u]
      s == dash[u].selectedSheet
      k == v.shared[v.editingCell.row]
  IN
  /\ Viewing(u)
  /\ EditorShown(u)
  /\ viewer' = [viewer EXCEPT
                  ![u].data = [v.data EXCEPT ![v.editingCell.row] =
                                 SetCell(@, v.editingCell.col, v.editValue)],
                  ![u].editingCell = NoCell,
                  ![u].editValue = <<>>]
  /\ dash' = IF k # 0 /\ s \in DOMAIN dash[u].sheets
             THEN [dash EXCEPT ![u].sheets[s].data[k] =
                     SetCell(@, v.editingCell.col, v.editValue)]
             ELSE dash
  /\ ViewerEvent(u, "handleSaveCell", "saved")
  /\ UNCHANGED <<dbvars, auth, csv, dlg>>

handleCancelEdit(u) ==
  /\ Viewing(u)
  /\ EditorShown(u)
  /\ viewer' = [viewer EXCEPT ![u].editingCell = NoCell, ![u].editValue = <<>>]
  /\ ViewerVars(u, "handleCancelEdit", "cancelled")

ColumnSet(v) == {v.columns[i] : i \in 1..Len(v.columns)}

\* the Add Row button is rendered under profile.is_admin
handleAddRow(u) ==
  /\ Viewing(u)
  /\ EditGuard(u) => Len(viewer[u].data) < MaxRows
  /\ IF ~EditGuard(u)
     THEN /\ UNCHANGED viewer
          /\ ViewerVars(u, "handleAddRow", "ignored")
     ELSE /\ viewer' = [viewer EXCEPT
                          ![u].data = Append(@, [c \in ColumnSet(viewer[u]) |-> <<>>]),
                          ![u].shared = Append(@, 0)]
          /\ ViewerVars(u, "handleAddRow", "added")

RemoveAt(seq, i) == SubSeq(seq, 1, i - 1) \o SubSeq(seq, i + 1, Len(seq))

\* data.filter((_, index) => index !== rowIndex), rowIndex from filteredData
handleDeleteRow(u, rowIndex) ==
  /\ Viewing(u)
  /\ rowIndex \in 1..Len(filteredData(viewer[u]))
  /\ IF ~EditGuard(u)
     THEN /\ UNCHANGED viewer
          /\ ViewerVars(u, "handleDeleteRow", "ignored")
     ELSE /\ viewer' = [viewer EXCEPT ![u].data = RemoveAt(@, rowIndex),
                                       ![u].shared = RemoveAt(@, rowIndex)]
          /\ ViewerVars(u, "handleDeleteRow", "deleted")

ColumnNames == {<<"A">>}
ColumnInputs == {<<" ", "A">>, <<"A">>, <<" ">>}
handleAddColumn(u, newColumnName) ==
  LET name == Trim(newColumnName) IN
  /\ Viewing(u)
  /\ (EditGuard(u) /\ name # <<>> /\ name \notin ColumnSet(viewer[u]))
       => Len(viewer[u].columns) < MaxCols
  /\ IF ~EditGuard(u)
     THEN /\ UNCHANGED viewer
          /\ ViewerVars(u, "handleAddColumn", "ignored")
     ELSE IF name = <<>> \/ name \in ColumnSet(viewer[u])
     THEN /\ UNCHANGED viewer
          /\ ViewerVars(u, "handleAddColumn", "rejected")
     ELSE /\ viewer' = [viewer EXCEPT
                          ![u].columns = Append(@, name),
                          ![u].data = [i \in 1..Len(@) |->
                                         [c \in DOMAIN @[i] \cup {name} |->
                                            IF c = name THEN <<>> ELSE @[i][c]]],
                          ![u].shared = [i \in 1..Len(@) |-> 0]]
          /\ ViewerVars(u, "handleAddColumn", "added")

handleDeleteColumn(u, columnToDelete) ==
  LET Other(c) == c # columnToDelete IN
  /\ Viewing(u)
  /\ columnToDelete \in ColumnSet(viewer[u])
  /\ IF ~EditGuard(u)
     THEN /\ UNCHANGED viewer
          /\ ViewerVars(u, "handleDeleteColumn", "ignored")
     ELSE /\ viewer' = [viewer EXCEPT
                          ![u].columns = SelectSeq(@, Other),
                          ![u].data = [i \in 1..Len(@) |->
                                         [c \in DOMAIN @[i] \ {columnToDelete} |-> @[i][c]]],
                          ![u].shared = [i \in 1..Len(@) |-> 0]]
          /\ ViewerVars(u, "handleDeleteColumn", "deleted")

\* update sheets set data, columns where id = sheet.id; a statement that the
\* policy leaves without rows is no error; error: the request itself fails
handleSave(u, error) ==
  LET s == dash[u].selectedSheet
      hit == s \in DOMAIN sheets /\ SheetsUpdatePolicy(u, sheets[s])
  IN
  /\ Viewing(u)
  /\ IF ~EditGuard(u)
     THEN /\ event' = Ev("handleSave", u, dash[u].projectId, "ignored", {s})
          /\ UNCHANGED <<sheets, dash, viewer>>
     ELSE IF error
     THEN \* catch: toast 'Failed to save changes. Please try again.'
          /\ event' = Ev("handleSave", u, dash[u].projectId, "Error", {s})
          /\ UNCHANGED <<sheets, dash, viewer>>
     ELSE /\ sheets' = IF hit
                       THEN [sheets EXCEPT ![s].data = viewer[u].data,
                                           ![s].columns = viewer[u].columns]
                       ELSE sheets
          /\ event' = Ev("handleSave", u, dash[u].projectId, "Success", {s})
          \* onUpdate is fetchSheets
          /\ dash' = [dash EXCEPT ![u].sheets =
                        [x \in {y \in DOMAIN sheets' :
                                  /\ sheets'[y].project_id = dash[u].projectId
                                  /\ SheetsSelectPolicy(u, sheets'[y])}
                           |-> sheets'[x]]]
          /\ viewer' = [viewer EXCEPT ![u] = Unshared(@)]
  /\ UNCHANGED <<projects, project_members, project_invitations, comments,
                 activity_logs, user_profiles, auth, csv, dlg>>

\* ---------------------------------------------------- CSV export and import
\* texts are sequences of characters
CsvChars == {"a", ",", "\"", "\n", "\t", " "}
CsvTexts(n) == UNION {[1..k -> CsvChars] : k \in 0..n}

\* Array.prototype.join
RECURSIVE Join(_, _)
Join(parts, sep) ==
  IF parts = <<>> THEN <<>>
  ELSE IF Len(parts) = 1 THEN parts[1]
  ELSE parts[1] \o sep \o Join(Tail(parts), sep)

\* String.prototype.split with a one-character separator
RECURSIVE SplitFrom(_, _, _)
SplitFrom(text, sep, current) ==
  IF text = <<>> THEN <<current>>
  ELSE IF Head(text) = sep THEN <<current>> \o SplitFrom(Tail(text), sep, <<>>)
  ELSE SplitFrom(Tail(text), sep, Append(current, Head(text)))
Split(text, sep) == SplitFrom(text, sep, <<>>)

\* stringValue.replace(/"/g, '""')
RECURSIVE DoubleQuotes(_)
DoubleQuotes(text) ==
  IF text = <<>> THEN <<>>
  ELSE (IF Head(text) = "\"" THEN <<"\"", "\"">> ELSE <<Head(text)>>)
         \o DoubleQuotes(Tail(text))

\* text.replace(/"/g, '')
StripQuotes(text) == LET NotQuote(c) == c # "\"" IN SelectSeq(text, NotQuote)

\* one field of an exported line
CsvField(value) ==
  IF \E i \in 1..Len(value) : value[i] \in {",", "\"", "\n"}
  THEN <<"\"">> \o DoubleQuotes(value) \o <<"\"">>
  ELSE value

\* SheetViewer.convertToCSV; row[col] || '' is '' for a column the row lacks
CellOf(row, col) == IF col \in DOMAIN row THEN row[col] ELSE <<>>
convertToCSV(data, columns) ==
  IF Len(data) = 0 THEN Join(columns, <<",">>) \o <<"\n">>
  ELSE LET header == Join(columns, <<",">>)
           rows == [i \in 1..Len(data) |->
                      Join([j \in 1..Len(columns) |-> CsvField(CellOf(data[i], columns[j]))],
                           <<",">>)]
       IN Join(<<header>> \o rows, <<"\n">>)

\* csv.split('\n').filter(line => line.trim())
NonBlank(line) == Trim(line) # <<>>
LinesOf(text) == SelectSeq(Split(text, "\n"), NonBlank)

\* CreateSheetDialog.parseCSVLine: the loop over line[i]
\* (a loop that takes no notice of quotes when it meets a separator: C23
\* must tell the two apart)
RECURSIVE parseCSVLineFromAnySeparator(_, _, _, _, _)
parseCSVLineFromAnySeparator(line, i, current, inQuotes, result) ==
  IF i > Len(line) THEN Append(result, Trim(current))
  ELSE IF line[i] = "\""
       THEN IF inQuotes /\ i + 1 <= Len(line) /\ line[i + 1] = "\""
            THEN parseCSVLineFromAnySeparator(line, i + 2, Append(current, "\""),
                                              inQuotes, result)
            ELSE parseCSVLineFromAnySeparator(line, i + 1, current, ~inQuotes, result)
  ELSE IF line[i] \in {",", "\t"}
       THEN parseCSVLineFromAnySeparator(line, i + 1, <<>>, inQuotes,
                                         Append(result, Trim(current)))
  ELSE parseCSVLineFromAnySeparator(line, i + 1, Append(current, line[i]), inQuotes,
                                    result)
RECURSIVE parseCSVLineFrom(_, _, _, _, _)
parseCSVLineFrom(line, i, current, inQuotes, result) ==
  IF i > Len(line) THEN Append(result, Trim(current))
  ELSE IF line[i] = "\""
       THEN IF inQuotes /\ i + 1 <= Len(line) /\ line[i + 1] = "\""
            THEN parseCSVLineFrom(line, i + 2, Append(current, "\""), inQuotes, result)
            ELSE parseCSVLineFrom(line, i + 1, current, ~inQuotes, result)
  ELSE IF line[i] \in {",", "\t"} /\ ~inQuotes
       THEN parseCSVLineFrom(line, i + 1, <<>>, inQuotes, Append(result, Trim(current)))
  ELSE parseCSVLineFrom(line, i + 1, Append(current, line[i]), inQuotes, result)
parseCSVLine(line) == parseCSVLineFrom(line, 1, <<>>, FALSE, <<>>)

\* columns.forEach((col, index) => row[col] = values[index] || ''): a name
\* that occurs twice keeps the value of its last place
RowFrom(columns, values) ==
  [c \in {columns[j] : j \in 1..Len(columns)} |->
     LET j == CHOOSE k \in 1..Len(columns) :
                /\ columns[k] = c
                /\ \A l \in 1..Len(columns) : columns[l] = c => l <= k
     IN IF j <= Len(values) THEN values[j] ELSE <<>>]

\* CreateSheetDialog.parseCSV
parseCSV(text) ==
  LET lines == LinesOf(text)
      columns == parseCSVLine(lines[1])
      NotEmpty(row) == \E c \in DOMAIN row : Trim(row[c]) # <<>>
  IN IF Len(lines) = 0 THEN [data |-> <<>>, columns |-> <<>>]
     ELSE [data |-> SelectSeq([i \in 1..(Len(lines) - 1) |->
                                 RowFrom(columns, parseCSVLine(lines[i + 1]))],
                              NotEmpty),
           columns |-> columns]

\* FileUploadDialog.processCSVFile
CellsOf(line) ==
  LET parts == Split(line, ",") IN [j \in 1..Len(parts) |-> StripQuotes(Trim(parts[j]))]
processCSVFile(text) ==
  LET lines == LinesOf(text)
      headers == CellsOf(lines[1])
  IN IF Len(lines) = 0 THEN [data |-> <<>>, columns |-> <<>>]
     ELSE [data |-> [i \in 1..(Len(lines) - 1) |-> RowFrom(headers, CellsOf(lines[i + 1]))],
           columns |-> headers]

\* the tables: unique column names, text cells
NoTable == [data |-> <<>>, columns |-> <<>>]
NoCsv ==
  [table |-> NoTable, text |-> <<>>, parsed |-> NoTable, fields |-> <<>>, stage |-> "table"]
CsvColumns ==
  {cols \in UNION {[1..n -> CsvTexts(CsvLen)] : n \in 0..CsvCols} :
     \A i, j \in 1..Len(cols) : cols[i] = cols[j] => i = j}
CsvTables ==
  UNION {{[data |-> d, columns |-> cols] :
            d \in UNION {[1..n -> [{cols[j] : j \in 1..Len(cols)} -> CsvTexts(CsvLen)]] :
                           n \in 0..CsvRows}} :
         cols \in CsvColumns}

\* SheetViewer.handleDownload hands convertToCSV(data, columns) to downloadCSV
downloadCSV ==
  /\ csv.stage = "table"
  /\ csv' = [csv EXCEPT !.text = convertToCSV(csv.table.data, csv.table.columns),
                        !.stage = "exported"]
  /\ UNCHANGED <<dbvars, auth, dash, dlg, viewer, event>>

\* the downloaded file is chosen in the create dialog
CreateSheetFileSelect ==
  /\ csv.stage # "table"
  /\ csv' = [csv EXCEPT !.parsed = parseCSV(csv.text), !.stage = "parseCSV"]
  /\ UNCHANGED <<dbvars, auth, dash, dlg, viewer, event>>

\* one line of a chosen file, as parseCSV hands it to parseCSVLine
LineChars == {"a", ",", "\"", "\t", " "}
Lines == UNION {[1..k -> LineChars] : k \in 0..MaxLine}
parseLine ==
  /\ csv.stage = "line"
  /\ csv' = [csv EXCEPT !.fields = parseCSVLine(csv.text), !.stage = "parseCSVLine"]
  /\ UNCHANGED <<dbvars, auth, dash, dlg, viewer, event>>

\* the downloaded file is uploaded through the upload dialog
UploadProcessFile ==
  /\ csv.stage # "table"
  /\ csv' = [csv EXCEPT !.parsed = processCSVFile(csv.text), !.stage = "processCSVFile"]
  /\ UNCHANGED <<dbvars, auth, dash, dlg, viewer, event>>

\* --------------------------------------------------------- CommentsDialog
\* CommentsDialog.fetchComments: select * from comments where sheet_id = s
FetchCommentsRows(u, s) ==
  {c \in comments : CommentsSelectPolicy(u, c) /\ c.sheet_id = s}

fetchComments(u, s) ==
  /\ ShowsCards(u)
  /\ s \in DOMAIN dash[u].sheets
  /\ event' = Ev("fetchComments", u, dash[u].projectId, "loaded",
                 FetchCommentsRows(u, s))
  /\ UNCHANGED <<dbvars, auth, csv, dash, dlg, viewer>>

\* the row CommentsDialog.handleSubmitComment inserts
CommentRow(u, s, newComment) ==
  [sheet_id |-> s, project_id |-> NULL, user_id |-> u,
   comment_text |-> Trim(newComment)]

\* the guard of handleSubmitComment: !newComment.trim() returns
CommentIsBlank(newComment) == Trim(newComment) = <<>>

handleSubmitComment(u, s, newComment) ==
  LET row == CommentRow(u, s, newComment) IN
  /\ ShowsCards(u)
  /\ s \in DOMAIN dash[u].sheets
  /\ IF CommentIsBlank(newComment)
     THEN /\ event' = Ev("handleSubmitComment", u, dash[u].projectId, "ignored",
                         {[sheet_id |-> s, text |-> newComment]})
          /\ UNCHANGED <<comments, activity_logs>>
     ELSE IF ~CommentsInsertPolicy(u, row)
     THEN \* the insert fails: toast 'Failed to add comment'
          /\ event' = Ev("handleSubmitComment", u, dash[u].projectId, "Error",
                         {[sheet_id |-> s, text |-> newComment]})
          /\ UNCHANGED <<comments, activity_logs>>
     ELSE /\ comments' = comments \cup {row}
          /\ InsertLog(u, LogRow(u, "comment", NULL))
          /\ event' = Ev("handleSubmitComment", u, dash[u].projectId, "Success",
                         {[sheet_id |-> s, text |-> newComment]})
  /\ UNCHANGED <<projects, project_members, project_invitations, sheets,
                 user_profiles, auth, csv, dash, dlg, viewer>>

\* ------------------------------------------------------- FileUploadDialog
supportedTypes == {"text/csv", "application/pdf", "image/png", "image/jpeg", "image/jpg"}

\* the row FileUploadDialog.handleUpload inserts into sheets
UploadRow(u, file_type) ==
  [project_id |-> NULL, file_type |-> file_type, data |-> <<>>, columns |-> <<>>]

\* the types of the files a user can pick in the file chooser
FileTypes ==
  supportedTypes \cup
    {"application/vnd.openxmlformats-officedocument.spreadsheetml.sheet",
     "application/vnd.ms-excel", "image/gif", "text/plain"}

\* FileUploadDialog.handleFileSelect; the dialog opens from the Upload File
\* button, rendered under canEdit
handleFileSelect(u, file_type) ==
  /\ ShowsCards(u)
  /\ canEdit(u)
  /\ IF file_type \notin supportedTypes
     THEN /\ event' = Ev("handleFileSelect", u, dash[u].projectId,
                         "Unsupported File Type", {file_type})
          /\ UNCHANGED dash
     ELSE /\ event' = Ev("handleFileSelect", u, dash[u].projectId, "selected",
                         {file_type})
          /\ dash' = [dash EXCEPT ![u].selectedFile = file_type]
  /\ UNCHANGED <<dbvars, auth, csv, dlg, viewer>>

\* FileUploadDialog.handleUpload, with the selected file of type file_type
handleUpload(u, file_type) ==
  LET row == UploadRow(u, file_type)
      free == SheetIds \ DOMAIN sheets
      id == CHOOSE x \in free : TRUE
  IN
  /\ ShowsCards(u)
  /\ canEdit(u)
  /\ dash[u].selectedFile = file_type
  /\ free # {}
  /\ IF ~SheetsInsertPolicy(u, row)
     THEN \* insertError is thrown: toast 'Failed to upload file'
          /\ event' = Ev("handleUpload", u, dash[u].projectId, "Error", {})
          /\ UNCHANGED <<sheets, activity_logs, dash>>
     ELSE /\ sheets' = [x \in DOMAIN sheets \cup {id} |->
                          IF x = id THEN row ELSE sheets[x]]
          /\ InsertLog(u, LogRow(u, "upload", NULL))
          /\ event' = Ev("handleUpload", u, dash[u].projectId, "Success", {id})
          \* the form is reset; onUploadComplete is fetchSheets
          /\ dash' = [dash EXCEPT ![u].selectedFile = NULL,
                                  ![u].sheets =
                        [x \in {y \in DOMAIN sheets' :
                                  /\ sheets'[y].project_id = dash[u].projectId
                                  /\ SheetsSelectPolicy(u, sheets'[y])}
                           |-> sheets'[x]]]
  /\ UNCHANGED <<projects, project_members, project_invitations, comments,
                 user_profiles, auth, csv, dlg, viewer>>

\* --------------------------------------------------- ProjectMembersDialog
\* ProjectMembersDialog.fetchMembers: both selects, for project p
FetchMembersRows(u, p) ==
  {m \in project_members : MembersSelectPolicy(u, m) /\ m.project_id = p}
FetchInvitationsRows(u, p) ==
  {i \in project_invitations : InvitationsManagePolicy(u, i) /\ i.project_id = p}
Fetched(u, p) ==
  [open |-> TRUE, members |-> FetchMembersRows(u, p)',
   invitations |-> FetchInvitationsRows(u, p)']

\* the Members button of the workspace opens the dialog: fetchMembers
fetchMembers(u) ==
  /\ ShowsCards(u)
  /\ dlg' = [dlg EXCEPT ![u] =
               [open |-> TRUE,
                members |-> FetchMembersRows(u, dash[u].projectId),
                invitations |-> FetchInvitationsRows(u, dash[u].projectId)]]
  /\ event' = Ev("fetchMembers", u, dash[u].projectId, "loaded",
                 FetchMembersRows(u, dash[u].projectId))
  /\ UNCHANGED <<dbvars, auth, csv, dash, viewer>>

\* the e-mail addresses typed into the invitation form; b is nobody's yet
InviteInputs == {<<"a">>, <<"A">>, <<"b">>, <<"c", "c">>, <<" ">>, <<"A", " ">>}
\* the items of the role <Select> of the dialog
RoleItems == {"viewer", "editor", "admin"}

\* the row handleInvite inserts
\* (a row without the role, which takes the column default: C9 must tell
\* the two apart)
InvitationRowNoRole(id, p, emailToInvite, inviteRole, u) ==
  [id |-> id, project_id |-> p, email |-> emailToInvite, role |-> DefaultRole]
InvitationRow(id, p, emailToInvite, inviteRole, u) ==
  [id |-> id, project_id |-> p, email |-> emailToInvite, role |-> inviteRole]

handleInvite(u, inviteEmail, inviteRole) ==
  LET p == dash[u].projectId
      emailToInvite == ToLowerCase(Trim(inviteEmail))
      \* a generated id is fresh: no table row and no loaded list holds it
      used == {r.id : r \in project_invitations \cup
                             UNION {dlg[x].invitations : x \in Users}}
      free == (1..MaxInvitations) \ used
      row == InvitationRow(CHOOSE i \in free : TRUE, p, emailToInvite, inviteRole, u)
      existingMember ==
        \E m \in dlg[u].members : ToLowerCase(EmailOf(m.user_id)) = emailToInvite
      existingInvitation ==
        \E i \in dlg[u].invitations : ToLowerCase(i.email) = emailToInvite
  IN
  /\ UNCHANGED <<projects, project_members, sheets, comments, activity_logs,
                 user_profiles, auth, csv, dash, viewer>>
  /\ ShowsCards(u)
  /\ dlg[u].open
  /\ canManageMembers(u)
  /\ Trim(inviteEmail) # <<>>
  /\ free # {}
  /\ IF existingMember
     THEN /\ event' = Ev("handleInvite", u, p, "User Already Member", {})
          /\ UNCHANGED <<project_invitations, dlg>>
     ELSE IF existingInvitation
     THEN /\ event' = Ev("handleInvite", u, p, "Invitation Already Sent", {})
          /\ UNCHANGED <<project_invitations, dlg>>
     ELSE IF ~InvitationsManagePolicy(u, row)
     THEN /\ event' = Ev("handleInvite", u, p, "Error", {})
          /\ UNCHANGED <<project_invitations, dlg>>
     ELSE /\ project_invitations' = project_invitations \cup {row}
          /\ event' = Ev("handleInvite", u, p, "Invitation Sent", {row})
          /\ dlg' = [dlg EXCEPT ![u] = Fetched(u, p)]

\* the role <Select> and the remove button of a member's line are rendered
\* under canManageMembers && member.user_id !== profile?.id
\* (controls rendered on the user's own line too: C20 must tell the two apart)
MemberControlsOwnLine(u, member) == canManageMembers(u)
MemberControls(u, member) == canManageMembers(u) /\ member.user_id # u

\* update project_members set role = newRole where id = member.id
handleRoleChange(u, member, newRole) ==
  LET p == dash[u].projectId
      hit == {m \in project_members :
                /\ m.project_id = member.project_id
                /\ m.user_id = member.user_id
                /\ MembersManagePolicy(u, m)}
  IN
  /\ UNCHANGED <<projects, project_invitations, sheets, comments, activity_logs,
                 user_profiles, auth, csv, dash, viewer>>
  /\ ShowsCards(u)
  /\ dlg[u].open
  /\ member \in dlg[u].members
  /\ MemberControls(u, member)
  /\ project_members' =
       (project_members \ hit) \cup {[m EXCEPT !.role = newRole] : m \in hit}
  /\ event' = Ev("handleRoleChange", u, p, "Role Updated", {member})
  /\ dlg' = [dlg EXCEPT ![u] = Fetched(u, p)]

\* delete from project_members where id = member.id
handleRemoveMember(u, member) ==
  LET p == dash[u].projectId
      hit == {m \in project_members :
                /\ m.project_id = member.project_id
                /\ m.user_id = member.user_id
                /\ MembersManagePolicy(u, m)}
  IN
  /\ UNCHANGED <<projects, project_invitations, sheets, comments, activity_logs,
                 user_profiles, auth, csv, dash, viewer>>
  /\ ShowsCards(u)
  /\ dlg[u].open
  /\ member \in dlg[u].members
  /\ MemberControls(u, member)
  /\ project_members' = project_members \ hit
  /\ event' = Ev("handleRemoveMember", u, p, "Member Removed", {member})
  /\ dlg' = [dlg EXCEPT ![u] = Fetched(u, p)]

\* delete from project_invitations where id = invitation.id
handleRemoveInvitation(u, invitation) ==
  LET p == dash[u].projectId
      hit == {i \in project_invitations :
                i.id = invitation.id /\ InvitationsManagePolicy(u, i)}
  IN
  /\ UNCHANGED <<projects, project_members, sheets, comments, activity_logs,
                 user_profiles, auth, csv, dash, viewer>>
  /\ ShowsCards(u)
  /\ dlg[u].open
  /\ canManageMembers(u)
  /\ invitation \in dlg[u].invitations
  /\ project_invitations' = project_invitations \ hit
  /\ event' = Ev("handleRemoveInvitation", u, p, "Invitation Cancelled", {invitation})
  /\ dlg' = [dlg EXCEPT ![u] = Fetched(u, p)]

\* ---------------------------------------------------- CreateProjectDialog
ProjectNameInputs == {<<>>, <<" ">>, <<"a">>}

\* the row handleSubmit inserts into project_members for the creator
CreatorRow(p, u) == [project_id |-> p, user_id |-> u, role |-> "admin"]

\* the dialog belongs to the project list (route /).  The projects insert is
\* decided by the INSERT policy; the row .select().single() hands back is
\* taken to be the inserted row.
handleSubmit(u, name) ==
  LET free == ProjectIds \ {r.id : r \in projects}
      id == CHOOSE x \in free : TRUE
      project == [id |-> id, created_by |-> u]
  IN
  /\ dash[u].projectId = NULL
  /\ free # {}
  /\ IF Trim(name) = <<>>
     THEN /\ event' = Ev("handleSubmit", u, NULL, "Error", {})
          /\ UNCHANGED <<projects, project_members>>
     ELSE IF ~ProjectsInsertPolicy(u, project)
     THEN \* projectError is thrown
          /\ event' = Ev("handleSubmit", u, NULL, "Error", {})
          /\ UNCHANGED <<projects, project_members>>
     ELSE /\ projects' = projects \cup {project}
          \* memberError is logged and not thrown
          /\ project_members' =
               IF MembersManagePolicy(u, CreatorRow(id, u))
               THEN project_members \cup {CreatorRow(id, u)}
               ELSE project_members
          /\ event' = Ev("handleSubmit", u, id, "Project Created", {})
  /\ UNCHANGED <<project_invitations, sheets, comments, activity_logs,
                 user_profiles, auth, csv, dash, dlg, viewer>>

\* -------------------------------------- statements sent past the handlers
\* Any signed-in user can send any statement with the public API key; the
\* policies decide what it does.
ApiInsertLog(u, p, action_type) ==
  /\ p \in {r.id : r \in projects}
  /\ InsertLog(u, LogRow(u, action_type, p))
  /\ event' = Ev("insert activity_logs", u, p,
                 IF LogsInsertPolicy(u, LogRow(u, action_type, p))
                 THEN "inserted" ELSE "denied", {})
  /\ UNCHANGED <<projects, project_members, project_invitations, sheets,
                 comments, user_profiles, auth, csv, dash, dlg, viewer>>

\* insert into sheets (project_id, file_type, ...) values (p, ...)
ApiInsertSheet(u, p, file_type) ==
  LET row == [UploadRow(u, file_type) EXCEPT !.project_id = p]
      free == SheetIds \ DOMAIN sheets
      id == CHOOSE x \in free : TRUE
  IN
  /\ p \in {r.id : r \in projects}
  /\ free # {}
  /\ IF SheetsInsertPolicy(u, row)
     THEN /\ sheets' = [x \in DOMAIN sheets \cup {id} |->
                          IF x = id THEN row ELSE sheets[x]]
          /\ event' = Ev("insert sheets", u, p, "inserted", {id})
     ELSE /\ UNCHANGED sheets
          /\ event' = Ev("insert sheets", u, p, "denied", {})
  /\ UNCHANGED <<projects, project_members, project_invitations, comments,
                 activity_logs, user_profiles, auth, csv, dash, dlg, viewer>>

ApiDeleteLog(u, i) ==
  /\ i \in 1..Len(activity_logs)
  /\ activity_logs' = IF LogsDeletePolicy(u, activity_logs[i])
                      THEN RemoveAt(activity_logs, i)
                      ELSE activity_logs
  /\ event' = Ev("delete activity_logs", u, activity_logs[i].project_id,
                 IF LogsDeletePolicy(u, activity_logs[i])
                 THEN "deleted" ELSE "denied", {})
  /\ UNCHANGED <<projects, project_members, project_invitations, sheets,
                 comments, user_profiles, auth, csv, dash, dlg, viewer>>

ApiUpdateLog(u, i) ==
  /\ i \in 1..Len(activity_logs)
  /\ activity_logs' = IF LogsUpdatePolicy(u, activity_logs[i])
                      THEN [activity_logs EXCEPT ![i].action_type = "edit"]
                      ELSE activity_logs
  /\ event' = Ev("update activity_logs", u, activity_logs[i].project_id,
                 IF LogsUpdatePolicy(u, activity_logs[i])
                 THEN "updated" ELSE "denied", {})
  /\ UNCHANGED <<projects, project_members, project_invitations, sheets,
                 comments, user_profiles, auth, csv, dash, dlg, viewer>>

\* delete from projects where id = p; every table that references projects
\* does so ON DELETE CASCADE
ApiDeleteProject(u, p) ==
  LET row == CHOOSE r \in projects : r.id = p
      Other(r) == r.project_id # p
  IN
  /\ p \in {r.id : r \in projects}
  /\ IF ProjectsDeletePolicy(u, row)
     THEN /\ projects' = projects \ {row}
          /\ project_members' = {m \in project_members : Other(m)}
          /\ project_invitations' = {i \in project_invitations : Other(i)}
          /\ sheets' = [x \in {y \in DOMAIN sheets : Other(sheets[y])} |-> sheets[x]]
          /\ comments' = {c \in comments : Other(c)}
          /\ activity_logs' = SelectSeq(activity_logs, Other)
          /\ event' = Ev("delete projects", u, p, "deleted", {})
     ELSE /\ event' = Ev("delete projects", u, p, "denied", {})
          /\ UNCHANGED <<projects, project_members, project_invitations, sheets,
                         comments, activity_logs>>
  /\ UNCHANGED <<user_profiles, auth, csv, dash, dlg, viewer>>

\* select on storage.objects of the bucket, then the public object URL:
\* the uploaded file of sheet s
StorageSelect(u, s) ==
  /\ s \in DOMAIN sheets
  /\ event' = IF StorageSelectPolicy(u, Bucket)
              THEN Ev("select storage.objects", u, sheets[s].project_id, "file", {s})
              ELSE Ev("select storage.objects", u, sheets[s].project_id, "denied", {})
  /\ UNCHANGED <<dbvars, auth, csv, dash, dlg, viewer>>

\* ------------------------------------------------------------------ Init
\* A new profile has is_admin = false and can_download = false (useAuth);
\* an administrator of the database sets the flags afterwards.
Profiles == [is_admin : BOOLEAN, can_download : BOOLEAN]
NewProfile == [is_admin |-> FALSE, can_download |-> FALSE]

SheetRow(p, file_type) ==
  [project_id |-> p, file_type |-> file_type,
   data |-> IF file_type = "text/csv"
            THEN <<[c \in {<<"A">>} |-> <<"x">>], [c \in {<<"A">>} |-> <<"y">>]>>
            ELSE <<>>,
   columns |-> IF file_type = "text/csv" THEN <<(<<"A">>)>> ELSE <<>>]

InitDb(Roles1, Roles2) ==
  /\ projects = {[id |-> "p1", created_by |-> "u1"], [id |-> "p2", created_by |-> "u2"]}
  /\ \E r1 \in Roles1, r \in Roles2 :
       project_members = {[project_id |-> "p1", user_id |-> "u1", role |-> r1],
                          [project_id |-> "p1", user_id |-> "u2", role |-> r],
                          [project_id |-> "p2", user_id |-> "u2", role |-> "admin"]}
  /\ project_invitations = {}
  /\ sheets = [x \in {"s1", "s2", "s3"} |->
                 IF x = "s1" THEN SheetRow("p1", "text/csv")
                 ELSE IF x = "s2" THEN SheetRow("p1", "application/pdf")
                 ELSE SheetRow("p2", "text/csv")]
  /\ comments = {[sheet_id |-> "s1", project_id |-> "p1", user_id |-> "u1",
                  comment_text |-> <<"a">>],
                 [sheet_id |-> "s3", project_id |-> "p2", user_id |-> "u2",
                  comment_text |-> <<"c">>]}
  /\ activity_logs = <<>>

Init ==
  /\ InitDb({"admin"}, Roles)
  /\ user_profiles = [u \in Users |-> NewProfile]
  /\ dash = [u \in Users |-> DashClosed]
  /\ dlg = [u \in Users |-> DlgClosed]
  /\ viewer = [u \in Users |-> ViewerClosed]
  /\ auth = [t \in Tabs |-> AuthMounted(NULL)]
  /\ csv = NoCsv
  /\ event = Ev("init", NoUser, NULL, "", {})

\* Project creation and member management
Next ==
  \/ \E u \in Users, p \in ProjectIds : OpenProject(u, p)
  \/ \E u \in Users : fetchMembers(u)
  \/ \E u \in Users, e \in InviteInputs, r \in RoleItems : handleInvite(u, e, r)
  \/ \E u \in Users : \E m \in dlg[u].members, r \in RoleItems : handleRoleChange(u, m, r)
  \/ \E u \in Users : \E m \in dlg[u].members : handleRemoveMember(u, m)
  \/ \E u \in Users : \E i \in dlg[u].invitations : handleRemoveInvitation(u, i)
  \/ \E u \in Users, n \in ProjectNameInputs : handleSubmit(u, n)

Spec == Init /\ [][Next]_vars

\* Reading a project: the workspace, its dialogs and the file storage
NextAccess ==
  \/ \E u \in Users, p \in ProjectIds : OpenProject(u, p)
  \/ \E u \in Users, p \in ProjectIds : FetchSheets(u, p)
  \/ \E u \in Users, s \in SheetIds : fetchComments(u, s)
  \/ \E u \in Users : fetchMembers(u)
  \/ \E u \in Users : \E m \in dlg[u].members : handleRemoveMember(u, m)
  \/ \E u \in Users, s \in SheetIds : StorageSelect(u, s)

SpecAccess == Init /\ [][NextAccess]_vars

\* Viewing, downloading, commenting and the activity log
InitActivity ==
  /\ InitDb({"admin"}, Roles)
  /\ \E f \in Profiles :
       user_profiles = [u \in Users |-> IF u = "u1" THEN f ELSE NewProfile]
  /\ dash = [u \in Users |-> DashClosed]
  /\ dlg = [u \in Users |-> DlgClosed]
  /\ viewer = [u \in Users |-> ViewerClosed]
  /\ auth = [t \in Tabs |-> AuthMounted(NULL)]
  /\ csv = NoCsv
  /\ event = Ev("init", NoUser, NULL, "", {})

NextActivity ==
  \/ \E u \in Users, p \in ProjectIds : OpenProject(u, p)
  \/ \E u \in Users, p \in ProjectIds : FetchSheets(u, p)
  \/ \E u \in Users, s \in SheetIds : handleViewSheet(u, s)
  \/ \E u \in Users : CloseViewer(u)
  \/ \E u \in Users, s \in SheetIds : handleDownloadSheet(u, s)
  \/ \E u \in Users, s \in SheetIds : handleDirectDownload(u, s)
  \/ \E u \in Users : ViewerDownload(u)
  \/ \E u \in Users, sel \in SUBSET SheetIds : BulkDownload(u, sel)
  \/ \E u \in Users, s \in SheetIds : fetchComments(u, s)
  \/ \E u \in Users, s \in SheetIds, t \in CommentInputs : handleSubmitComment(u, s, t)
  \/ \E u \in Users : ShowActivityLogs(u)
  \/ \E u \in Users, p \in ProjectIds : ApiInsertLog(u, p, "edit")
  \/ \E u \in Users, i \in 1..MaxLogs : ApiDeleteLog(u, i)
  \/ \E u \in Users, i \in 1..MaxLogs : ApiUpdateLog(u, i)
  \/ \E u \in Users, p \in ProjectIds : ApiDeleteProject(u, p)

SpecActivity == InitActivity /\ [][NextActivity]_vars

\* The upload dialog
NextUpload ==
  \/ \E u \in Users, p \in ProjectIds : OpenProject(u, p)
  \/ \E u \in Users, p \in ProjectIds : FetchSheets(u, p)
  \/ \E u \in Users, t \in FileTypes : handleFileSelect(u, t)
  \/ \E u \in Users, t \in FileTypes : handleUpload(u, t)
  \/ \E u \in Users, p \in ProjectIds, t \in supportedTypes : ApiInsertSheet(u, p, t)

SpecUpload == Init /\ [][NextUpload]_vars

\* Signing in and out
NextAuth ==
  \/ \E t \in Tabs : initializeAuth(t)
  \/ \E t \in Tabs : fetchUserProfile(t)
  \/ \E t \in Tabs, c \in AuthChanges : onAuthStateChange(t, c)
  \/ \E t \in Tabs, u \in Users : signInWithGoogle(t, u)
  \/ \E t \in Tabs : signOut(t)

SpecAuth == Init /\ [][NextAuth]_vars

\* CSV export followed by import, over the tables
InitCsv ==
  /\ InitDb({"admin"}, {"viewer"})
  /\ user_profiles = [u \in Users |-> NewProfile]
  /\ dash = [u \in Users |-> DashClosed]
  /\ dlg = [u \in Users |-> DlgClosed]
  /\ viewer = [u \in Users |-> ViewerClosed]
  /\ auth = [t \in Tabs |-> AuthMounted(NULL)]
  /\ \E t \in CsvTables : csv = [NoCsv EXCEPT !.table = t]
  /\ event = Ev("init", NoUser, NULL, "", {})

NextCsv ==
  \/ downloadCSV
  \/ CreateSheetFileSelect
  \/ UploadProcessFile

SpecCsv == InitCsv /\ [][NextCsv]_vars

\* parseCSVLine, over the lines
InitLine ==
  /\ InitDb({"admin"}, {"viewer"})
  /\ user_profiles = [u \in Users |-> NewProfile]
  /\ dash = [u \in Users |-> DashClosed]
  /\ dlg = [u \in Users |-> DlgClosed]
  /\ viewer = [u \in Users |-> ViewerClosed]
  /\ auth = [t \in Tabs |-> AuthMounted(NULL)]
  /\ \E line \in Lines : csv = [NoCsv EXCEPT !.text = line, !.stage = "line"]
  /\ event = Ev("init", NoUser, NULL, "", {})

NextLine == parseLine

SpecLine == InitLine /\ [][NextLine]_vars

\* The sheet viewer: editing a sheet and saving it
InitViewer ==
  /\ InitDb(Roles, {"viewer"})
  /\ \E a \in BOOLEAN :
       user_profiles = [u \in Users |-> IF u = "u1" THEN [NewProfile EXCEPT !.is_admin = a]
                                        ELSE NewProfile]
  /\ dash = [u \in Users |-> DashClosed]
  /\ dlg = [u \in Users |-> DlgClosed]
  /\ viewer = [u \in Users |-> ViewerClosed]
  /\ auth = [t \in Tabs |-> AuthMounted(NULL)]
  /\ csv = NoCsv
  /\ event = Ev("init", NoUser, NULL, "", {})

NextViewer ==
  \/ \E p \in ProjectIds : OpenProject("u1", p)
  \/ \E p \in ProjectIds : FetchSheets("u1", p)
  \/ \E s \in SheetIds : handleViewSheet("u1", s)
  \/ CloseViewer("u1")
  \/ \E q \in SearchInputs : onSearchChange("u1", q)
  \/ \E i \in 1..MaxRows, c \in ColumnNames : handleCellEdit("u1", i, c)
  \/ \E v \in Cells : onEditValueChange("u1", v)
  \/ handleSaveCell("u1")
  \/ handleCancelEdit("u1")
  \/ handleAddRow("u1")
  \/ \E i \in 1..MaxRows : handleDeleteRow("u1", i)
  \/ \E c \in ColumnInputs : handleAddColumn("u1", c)
  \/ \E c \in ColumnNames : handleDeleteColumn("u1", c)
  \/ \E error \in BOOLEAN : handleSave("u1", error)

SpecViewer == InitViewer /\ [][NextViewer]_vars

\* ================================================================= claims
\* C1 (checked under SpecAccess). Project isolation: a read by a user who is
\* not a member of the project returns nothing of that project - no project
\* record, no sheet, no uploaded file, no member and no comment - and
\* opening the workspace as a non-member ends in 'Access Denied'.
C1_Reads ==
  {"fetchProject", "fetchSheets", "fetchComments", "fetchMembers",
   "select storage.objects"}
C1_ProjectIsolation ==
  (event.op \in C1_Reads /\ ~is_project_member(event.project, event.user))
    => /\ event.rows = {}
       /\ event.op = "fetchProject" => event.result = "Access Denied"

\* C2 (checked under Spec). Member management is reserved to admins: a step
\* changes the members or the invitations of a project only when the acting
\* user was an admin of that project when the step was taken.
MembersOf(p) == {m \in project_members : m.project_id = p}
InvitationsOf(p) == {i \in project_invitations : i.project_id = p}
C2_ManagementByAdmins ==
  [][\A p \in ProjectIds :
       (MembersOf(p)' # MembersOf(p) \/ InvitationsOf(p)' # InvitationsOf(p))
         => is_project_admin(p, event'.user)]_vars
\* a user whose role is editor or viewer, with a workspace that still shows
\* the admin controls, has run a management operation
C2_Witness ==
  /\ event.op \in {"handleRoleChange", "handleRemoveMember", "handleRemoveInvitation",
                   "handleInvite"}
  /\ RoleOf(event.project, event.user) \in {"editor", "viewer"}

\* C3 (checked under SpecViewer). A step taken by a user whose role in a
\* project is viewer leaves every persisted sheet of that project as it was.
C3_ViewerNeverChangesSheet ==
  [][\A s \in DOMAIN sheets :
       RoleOf(sheets[s].project_id, event'.user) = "viewer"
         => (s \in DOMAIN sheets' /\ sheets'[s] = sheets[s])]_vars
\* a viewer whose profile passes the client's guard has edited the sheet in
\* the viewer and saved it
C3_Witness ==
  /\ event.op = "handleSave"
  /\ event.result = "Success"
  /\ RoleOf(event.project, event.user) = "viewer"
  /\ \E s \in event.rows : viewer[event.user].data # sheets[s].data

\* C4 (checked under SpecViewer). The edit guard of the sheet viewer holds
\* whenever the user's role in the project of the sheet is admin or editor.
C4_EditGuardFollowsRole ==
  \A u \in Users :
    (Viewing(u) /\ RoleOf(dash[u].projectId, u) \in {"admin", "editor"})
      => EditGuard(u)

\* C5 (checked under SpecActivity). No download starts for a user whose
\* profile has can_download = false and is_admin = false.
C5_NoDownloadWithoutPermission ==
  event.result = "Download Started"
    => (user_profiles[event.user].can_download \/ user_profiles[event.user].is_admin)

C7_ActionType ==
  [op \in {"handleViewSheet", "handleDownloadSheet", "BulkDownload", "handleUpload",
           "handleSubmitComment"} |->
     IF op = "handleViewSheet" THEN "view"
     ELSE IF op = "handleDownloadSheet" THEN "download"
     ELSE IF op = "BulkDownload" THEN "bulk_download"
     ELSE IF op = "handleUpload" THEN "upload"
     ELSE "comment"]
C7_CompletedActionsLogged ==
  (/\ event.op \in DOMAIN C7_ActionType
   /\ event.result \in {"viewed", "Download Started", "Success"})
    => /\ Len(activity_logs) > 0
       /\ activity_logs[Len(activity_logs)].user_id = event.user
       /\ activity_logs[Len(activity_logs)].action_type = C7_ActionType[event.op]

C10_CommentStored ==
  /\ \A c \in comments : Trim(c.comment_text) # <<>>
  /\ event.op = "handleSubmitComment" =>
       \A r \in event.rows :
         (Trim(r.text) # <<>> /\ is_project_member(event.project, event.user))
           => \E c \in FetchCommentsRows(event.user, r.sheet_id) :
                /\ c.sheet_id = r.sheet_id
                /\ c.user_id = event.user
                /\ c.comment_text = Trim(r.text)

\* C11 (checked under SpecUpload). The upload dialog accepts a selected file
\* exactly when its type is a sheet kind - CSV, Excel, PDF or image; a file
\* of another type is rejected and the selection stays as it was, so the
\* selected file is always of a sheet kind.
C11_SheetKinds ==
  {"text/csv", "application/vnd.openxmlformats-officedocument.spreadsheetml.sheet",
   "application/vnd.ms-excel", "application/pdf", "image/png", "image/jpeg",
   "image/jpg", "image/gif"}
C11_AcceptsSheetKinds ==
  /\ \A u \in Users : dash[u].selectedFile \in C11_SheetKinds \cup {NULL}
  /\ event.op = "handleFileSelect" =>
       \A t \in event.rows : (event.result = "selected") <=> (t \in C11_SheetKinds)

C13_AuthEventsApplied ==
  \A t \in Tabs :
    (event.op = "onAuthStateChange" /\ event.project = t /\ auth[t].authInitialized) =>
      \A c \in event.rows :
        /\ auth[t].user = c.session
        /\ c.session = NULL => auth[t].profile = NULL
        /\ c.session # NULL =>
             (auth[t].profile = c.session \/ auth[t].fetching = c.session)

\* C14 (checked under SpecViewer). Saving a cell edit changes exactly the
\* cell of the row and column where the displayed table shows the editor,
\* and deleting a row removes exactly the row displayed at the clicked
\* position, also while the search hides rows.
C14_Shown(v, i) == v.searchQuery = <<>> \/ RowMatches(v.data[i], v.searchQuery)
\* the place in data of the row displayed at position k
C14_DataIndex(v, k) ==
  CHOOSE i \in 1..Len(v.data) :
    C14_Shown(v, i) /\ Cardinality({j \in 1..i : C14_Shown(v, j)}) = k
C14_EditsHitDisplayedRow ==
  [][\A u \in Users :
       LET v == viewer[u] IN
       /\ handleSaveCell(u) =>
            viewer'[u].data =
              [v.data EXCEPT ![C14_DataIndex(v, v.editingCell.row)][v.editingCell.col] =
                               v.editValue]
       /\ \A k \in 1..MaxRows :
            (handleDeleteRow(u, k) /\ EditGuard(u)) =>
              viewer'[u].data = RemoveAt(v.data, C14_DataIndex(v, k))]_vars

\* C15 (checked under SpecViewer). Whenever editingCell is set, its row is
\* an index of the current data and its column is one of the current columns.
C15_EditingCellValid ==
  \A u \in Users :
    viewer[u].editingCell # NoCell =>
      /\ viewer[u].editingCell.row \in 1..Len(viewer[u].data)
      /\ viewer[u].editingCell.col \in ColumnSet(viewer[u])

\* C16 (checked under SpecViewer, where nobody else writes the sheets). When
\* the viewer is closed, every sheet in the dashboard's list equals the
\* stored sheet it was loaded from: edits that were not saved have not
\* reached the list.
C16_EditsStayLocal ==
  \A u \in Users :
    (event.op = "onClose" /\ event.user = u) =>
      \A s \in DOMAIN dash[u].sheets :
        s \in DOMAIN sheets /\ dash[u].sheets[s] = sheets[s]

\* C17 (checked under SpecViewer). A save that reports success leaves the
\* stored sheet's data and columns equal to the viewer's; a save that
\* reports failure leaves the stored sheets, the dashboard and the viewer's
\* local state as they were.
C17_SaveOutcome ==
  [][\A u \in Users :
       (event'.op = "handleSave" /\ event'.user = u) =>
         /\ event'.result = "Success" =>
              \A s \in event'.rows :
                /\ s \in DOMAIN sheets'
                /\ sheets'[s].data = viewer'[u].data
                /\ sheets'[s].columns = viewer'[u].columns
         /\ event'.result = "Error" =>
              /\ sheets' = sheets
              /\ dash' = dash
              /\ viewer' = viewer]_vars

\* C18 (checked under SpecCsv). Export followed by import is the identity:
\* the table parsed from the text convertToCSV produced has the columns and
\* the rows of the exported table, in the same order, for the parser of the
\* create dialog and for the one of the upload dialog.
C18_ExportImportIdentity ==
  csv.stage \in {"parseCSV", "processCSVFile"} => csv.parsed = csv.table

\* C19 (checked under Spec). A project never holds two pending invitations
\* whose e-mail addresses are equal ignoring case, and an invitation that has
\* just been created is not for the address of a current member of the project.
C19_InvitationsAreUnique ==
  /\ \A i, j \in project_invitations :
       (i.project_id = j.project_id /\ ToLowerCase(i.email) = ToLowerCase(j.email))
         => i = j
  /\ (event.op = "handleInvite" /\ event.result = "Invitation Sent") =>
       \A row \in event.rows :
         ~\E m \in project_members :
            /\ m.project_id = row.project_id
            /\ ToLowerCase(EmailOf(m.user_id)) = ToLowerCase(row.email)

\* C20 (checked under Spec). A role change or a member removal made in the
\* members dialog is never aimed at the acting user's own membership, and it
\* leaves every project that had an admin with at least one admin.
C20_Manages == {"handleRoleChange", "handleRemoveMember"}
C20_AdminRemains ==
  [][event'.op \in C20_Manages =>
       /\ \A m \in event'.rows : m.user_id # event'.user
       /\ \A p \in ProjectIds :
            (\E m \in project_members : m.project_id = p /\ m.role = "admin")
              => (\E m \in project_members' : m.project_id = p /\ m.role = "admin")]_vars
\* a former admin, whose dialog was loaded before the demotion, has pressed
\* the remove button on the line of the project's only admin
C20_Witness ==
  /\ event.op = "handleRemoveMember"
  /\ RoleOf(event.project, event.user) \in {"editor", "viewer"}
  /\ \E m \in event.rows :
       /\ m.project_id = event.project
       /\ RoleOf(m.project_id, m.user_id) = "admin"
       /\ \A n \in project_members :
            (n.project_id = m.project_id /\ n.role = "admin") => n.user_id = m.user_id

\* C21 (checked under SpecUpload). Every step that adds a sheet record of a
\* project is taken by a user whose role in that project is admin or editor.
C21_SheetsInsertedByEditors ==
  [][\A s \in DOMAIN sheets' \ DOMAIN sheets :
       RoleOf(sheets'[s].project_id, event'.user) \in {"admin", "editor"}]_vars

\* C22 (checked under SpecActivity). A user whose role in the project is
\* admin, opening the activity view from the workspace, is shown the
\* activity log records of the project.
C22_AdminSeesProjectLogs ==
  (event.op = "ActivityLogs" /\ RoleOf(event.project, event.user) = "admin")
    => /\ event.result = "shown"
       /\ event.rows = {i \in 1..Len(activity_logs) :
                          activity_logs[i].project_id = event.project}

\* C23 (checked under SpecLine). parseCSVLine splits the line at the commas
\* and tabs that lie outside double quotes and nowhere else, so it returns
\* one field more than there are such separators; in every field the
\* delimiting quotes are removed, a doubled quote inside a quoted section
\* is one quote character, separators inside a quoted section stay, and the
\* field is trimmed.
C23_IsSeparator(c) == c \in {",", "\t"}
\* a place is outside quotes when an even number of quotes precedes it
C23_Outside(line, i) ==
  Cardinality({j \in 1..(i - 1) : line[j] = "\""}) % 2 = 0
C23_Separators(line) ==
  {i \in 1..Len(line) : C23_IsSeparator(line[i]) /\ C23_Outside(line, i)}
\* the place of the k-th separator; 0 and Len(line) + 1 stand at the two ends
C23_Cut(line, k) ==
  IF k = 0 THEN 0
  ELSE IF k > Cardinality(C23_Separators(line)) THEN Len(line) + 1
  ELSE CHOOSE i \in C23_Separators(line) :
         Cardinality({j \in C23_Separators(line) : j <= i}) = k
C23_Segment(line, k) ==
  SubSeq(line, C23_Cut(line, k - 1) + 1, C23_Cut(line, k) - 1)
\* the number of quotes the text starts with
RECURSIVE C23_QuoteRun(_)
C23_QuoteRun(text) ==
  IF text # <<>> /\ Head(text) = "\"" THEN 1 + C23_QuoteRun(Tail(text)) ELSE 0
\* a run of quotes: the first opens a section when none is open, then every
\* pair is one quote character, and a quote left over closes the section
RECURSIVE C23_Unquote(_, _)
C23_Unquote(text, quoted) ==
  IF text = <<>> THEN <<>>
  ELSE IF Head(text) # "\"" THEN <<Head(text)>> \o C23_Unquote(Tail(text), quoted)
  ELSE LET n == C23_QuoteRun(text)
           m == IF quoted THEN n ELSE n - 1
       IN [j \in 1..(m \div 2) |-> "\""]
            \o C23_Unquote(SubSeq(text, n + 1, Len(text)), m % 2 = 0)
C23_Fields(line) ==
  [k \in 1..(Cardinality(C23_Separators(line)) + 1) |->
     Trim(C23_Unquote(C23_Segment(line, k), FALSE))]
C23_SplitsOutsideQuotes ==
  csv.stage = "parseCSVLine" => csv.fields = C23_Fields(csv.text)
\* a line with a separator outside quotes, a separator inside a quoted
\* section and a doubled quote has been parsed
C23_Witness ==
  /\ csv.stage = "parseCSVLine"
  /\ C23_Separators(csv.text) # {}
  /\ \E i \in 1..Len(csv.text) :
       C23_IsSeparator(csv.text[i]) /\ ~C23_Outside(csv.text, i)
  /\ \E k \in 1..Len(csv.fields) :
       /\ \E j \in 1..Len(csv.fields[k]) : csv.fields[k][j] = "\""
       /\ \E j \in 1..Len(csv.fields[k]) : C23_IsSeparator(csv.fields[k][j])

====
